---- MODULE Spec2Model ----
(***************************************************************************)
(* A model of ts_store: one process-wide timestamp handler (dataStore, an  *)
(* atomic.Value holding a time.Time), its store()/get() methods called by  *)
(* concurrent goroutines, and the HTTP handlers update and retrieve that   *)
(* validate a request and delegate to it.                                  *)
(***************************************************************************)
EXTENDS Integers, Sequences, FiniteSets, TLC

(***************************************************************************)
(* 64-bit machine words.  TLC's integers are 32 bits wide, so an int64 or  *)
(* uint64 is kept as four 16-bit limbs, least significant first, and the   *)
(* arithmetic below wraps modulo 2^64 as Go's does.                        *)
(***************************************************************************)
Limb == 2^16

Zero64 == <<0, 0, 0, 0>>

One64 == <<1, 0, 0, 0>>

MaxInt64 == <<Limb - 1, Limb - 1, Limb - 1, (Limb \div 2) - 1>>

MinInt64 == <<0, 0, 0, Limb \div 2>>

MaxUint64 == <<Limb - 1, Limb - 1, Limb - 1, Limb - 1>>

\* The int64 of a small natural number.
I64(n) == <<n, 0, 0, 0>>

\* a + b modulo 2^64.
Add64(a, b) ==
  LET s1 == a[1] + b[1]
      s2 == a[2] + b[2] + (s1 \div Limb)
      s3 == a[3] + b[3] + (s2 \div Limb)
      s4 == a[4] + b[4] + (s3 \div Limb)
  IN  <<s1 % Limb, s2 % Limb, s3 % Limb, s4 % Limb>>

\* -a modulo 2^64 (two's complement).
Neg64(a) ==
  Add64(<<Limb - 1 - a[1], Limb - 1 - a[2], Limb - 1 - a[3], Limb - 1 - a[4]>>, One64)

\* a < 0 for a signed word: the sign bit.
IsNeg64(a) == a[4] >= Limb \div 2

\* n * 10 + d as five limbs; the fifth is what does not fit in 64 bits.
MulAdd10(n, d) ==
  LET p1 == n[1] * 10 + d
      p2 == n[2] * 10 + (p1 \div Limb)
      p3 == n[3] * 10 + (p2 \div Limb)
      p4 == n[4] * 10 + (p3 \div Limb)
  IN  <<p1 % Limb, p2 % Limb, p3 % Limb, p4 % Limb, p4 \div Limb>>

\* Quotient and remainder of an unsigned word by 10.
DivMod10(u) ==
  LET t4 == u[4]
      t3 == (t4 % 10) * Limb + u[3]
      t2 == (t3 % 10) * Limb + u[2]
      t1 == (t2 % 10) * Limb + u[1]
  IN  [q |-> <<t1 \div 10, t2 \div 10, t3 \div 10, t4 \div 10>>, r |-> t1 % 10]

(***************************************************************************)
(* Byte strings are sequences of one-character strings.                    *)
(***************************************************************************)
Digits == {"0", "1", "2", "3", "4", "5", "6", "7", "8", "9"}

DigitVal ==
  [c \in Digits |->
     CASE c = "0" -> 0 [] c = "1" -> 1 [] c = "2" -> 2 [] c = "3" -> 3
       [] c = "4" -> 4 [] c = "5" -> 5 [] c = "6" -> 6 [] c = "7" -> 7
       [] c = "8" -> 8 [] c = "9" -> 9]

DigitChar == <<"0", "1", "2", "3", "4", "5", "6", "7", "8", "9">>

ErrNone == "nil"

ErrSyntax == "strconv.ErrSyntax"

ErrRange == "strconv.ErrRange"

\* One turn of ParseUint's loop over the bytes of s: acc is n and the error so
\* far, c the next byte.  n*10+d that does not fit in 64 bits is a range error
\* (the cutoff test and the n1 < n test of the loop).
parseStep(acc, c) ==
  LET fit(m) == IF m[5] # 0 THEN [n |-> MaxUint64, err |-> ErrRange]
                ELSE [n |-> <<m[1], m[2], m[3], m[4]>>, err |-> ErrNone]
  IN  IF acc.err # ErrNone THEN acc
      ELSE IF c \notin Digits THEN [n |-> Zero64, err |-> ErrSyntax]
      ELSE fit(MulAdd10(acc.n, DigitVal[c]))

\* The loop over the bytes s[lo..hi], left to right, returning at the first error.
RECURSIVE parseBytes(_, _, _, _)
parseBytes(s, lo, hi, acc) ==
  IF lo > hi \/ acc.err # ErrNone THEN acc
  ELSE parseBytes(s, lo + 1, hi, parseStep(acc, s[lo]))

\* The same loop over s[lo..Len(s)], taken in runs of Run bytes only to keep the
\* evaluation of a long s shallow.
Run == 2^5

RECURSIVE parseRuns(_, _, _)
parseRuns(s, lo, acc) ==
  IF lo > Len(s) \/ acc.err # ErrNone THEN acc
  ELSE parseRuns(s, lo + Run,
                 parseBytes(s, lo, IF lo + Run - 1 < Len(s) THEN lo + Run - 1 ELSE Len(s), acc))

\* strconv.ParseUint(s, 10, 64).
ParseUint(s) ==
  IF s = <<>> THEN [n |-> Zero64, err |-> ErrSyntax]
  ELSE parseRuns(s, 1, [n |-> Zero64, err |-> ErrNone])

\* A faulty call with the wrong bit size, strconv.ParseInt(s, 10, 32): what does
\* not fit in 32 bits is a range error.
ParseInt32(s) ==
  LET fits(n) == n[4] = 0 /\ n[3] = 0 /\ n[2] < Limb \div 2
      signed(neg, un) ==
        IF un.err = ErrSyntax THEN [n |-> Zero64, err |-> ErrSyntax]
        ELSE IF ~neg /\ ~fits(un.n) THEN [n |-> <<Limb - 1, (Limb \div 2) - 1, 0, 0>>, err |-> ErrRange]
        ELSE IF neg /\ ~fits(un.n) /\ un.n # <<0, Limb \div 2, 0, 0>>
          THEN [n |-> Neg64(<<0, Limb \div 2, 0, 0>>), err |-> ErrRange]
        ELSE [n |-> IF neg THEN Neg64(un.n) ELSE un.n, err |-> ErrNone]
  IN  IF s = <<>> THEN [n |-> Zero64, err |-> ErrSyntax]
      ELSE signed(s[1] = "-", ParseUint(IF s[1] \in {"+", "-"} THEN Tail(s) ELSE s))

\* strconv.ParseInt(s, 10, 64).
ParseInt(s) ==
  LET signed(neg, un) ==
        IF un.err = ErrSyntax THEN [n |-> Zero64, err |-> ErrSyntax]
        ELSE IF ~neg /\ IsNeg64(un.n) THEN [n |-> MaxInt64, err |-> ErrRange]
        ELSE IF neg /\ IsNeg64(un.n) /\ un.n # MinInt64
          THEN [n |-> MinInt64, err |-> ErrRange]
        ELSE [n |-> IF neg THEN Neg64(un.n) ELSE un.n, err |-> ErrNone]
  IN  IF s = <<>> THEN [n |-> Zero64, err |-> ErrSyntax]
      ELSE signed(s[1] = "-", ParseUint(IF s[1] \in {"+", "-"} THEN Tail(s) ELSE s))

\* The decimal digits of an unsigned word, most significant first; none for 0.
RECURSIVE formatBits(_)
formatBits(u) ==
  IF u = Zero64 THEN <<>>
  ELSE LET qr == DivMod10(u) IN Append(formatBits(qr.q), DigitChar[qr.r + 1])

\* strconv.FormatInt(i, 10).
FormatInt(i) ==
  IF i = Zero64 THEN <<"0">>
  ELSE IF IsNeg64(i) THEN <<"-">> \o formatBits(Neg64(i))
  ELSE formatBits(i)

(***************************************************************************)
(* Bounds of the model.                                                    *)
(***************************************************************************)
\* Goroutines that call the store or serve requests.
NThreads == 2

\* Calls (or requests) issued in one run.
MaxCalls == 3

\* Callers store time.Unix(v, 0) for v in 0..MaxArg and for v = MaxInt64.
MaxArg == 1

Threads == 1..NThreads

StoreArgs == {I64(n) : n \in 0..MaxArg} \cup {MaxInt64}

(***************************************************************************)
(* time.Time values, as the handlers build and read them.                  *)
(***************************************************************************)
\* Seconds from year 1 to 1970: (1969*365 + 1969/4 - 1969/100 + 1969/400) * 86400.
unixToInternal == <<63232, 30609, 14, 0>>

internalToUnix == Neg64(unixToInternal)

\* A faulty time.Unix(sec, 0) that clamps the internal seconds at MaxInt64
\* where Go lets the addition wrap.
timeUnixSat(sec) ==
  [wall |-> 0,
   ext |-> IF ~IsNeg64(sec) /\ IsNeg64(Add64(sec, unixToInternal)) THEN MaxInt64
           ELSE Add64(sec, unixToInternal),
   loc |-> "Local"]

\* time.Unix(sec, 0).
timeUnix(sec) == [wall |-> 0, ext |-> Add64(sec, unixToInternal), loc |-> "Local"]

\* A faulty t.Unix() that forgets the offset between the internal epoch and 1970.
UnixNoOffset(t) == t.ext

\* t.Unix().
Unix(t) == Add64(t.ext, internalToUnix)

\* time.Time{}.
zeroTime == [wall |-> 0, ext |-> Zero64, loc |-> "UTC"]

(***************************************************************************)
(* Interface values (any): what an atomic.Value holds and Load returns.    *)
(***************************************************************************)
NilIface == [typ |-> "nil", data |-> zeroTime]

TimeIface(t) == [typ |-> "time.Time", data |-> t]

\* A faulty publish that writes the low half of the seconds and leaves the
\* high half of the value held before: a write torn in two.
atomicStoreTorn(old, x) ==
  TimeIface([x EXCEPT !.ext = <<x.ext[1], x.ext[2], old.data.ext[3], old.data.ext[4]>>])

\* A faulty publish that keeps the value already held: only the first store
\* takes effect.
atomicStoreOnce(old, x) == IF old.typ = "nil" THEN TimeIface(x) ELSE old

\* ds.ts.Store(x): the content of the Value after the atomic publish.
atomicStore(old, x) == TimeIface(x)

\* ds.ts.Load(): what one atomic load of the Value returns.
atomicLoad(cell) == cell

\* val.(time.Time) succeeds.
assertTime(v) == v.typ = "time.Time"

\* Receivers of the dataStore methods: the nil pointer and the allocated store.
NilDS == "nil"

DS == "&dataStore{}"

\* store() and get() without their nil check.
nilReceiverUnchecked(recv) == FALSE

\* if ds == nil { panic(...) } at the head of store() and get().
nilReceiver(recv) == recv = NilDS

(***************************************************************************)
(* State.  A goroutine is "idle", or inside a method at "store_publish"    *)
(* (before ds.ts.Store), "get_load" (before ds.ts.Load) or "get_assert"    *)
(* (before the type assertion), or back in its caller: "returned" for a    *)
(* direct caller, "update_ok" and "retrieve_write" for a handler that has  *)
(* still to write its response, "responded" once it has.  A goroutine that *)
(* panicked stays "panicked"; the others go on, which covers a caller that *)
(* recovers as well as one that does not.  The variables marked history    *)
(* record what happened and are read by the properties only.               *)
(***************************************************************************)
VARIABLES
  phase,    \* "boot" until init() has run, then "ready"; "serving" once the server listens
  th,       \* the process-wide timestampHandler: NilDS or DS
  ts,       \* the content of DS.ts, the atomic.Value
  pc,       \* where each goroutine is
  frame,    \* the store()/get() call each goroutine is in
  val,      \* get()'s local val
  ret,      \* what get() returned
  req,      \* the request each goroutine serves
  resp,     \* the response it wrote
  log,      \* history: the values published, in the order of their publish
  invoked,  \* history: the store() calls callers have issued
  gh,       \* history: per call, what had happened when it began and ended
  lastOk,   \* history: the body of the latest update answered 200
  ncalls,   \* calls and requests issued so far
  lastErr,  \* history: the latest rejected request the client read the answer of
  conv,     \* what the latest direct call of toUnixTime returned
  writeFlag,\* the flag-based dataStore's writeFlag
  tsPlain   \* the flag-based dataStore's ts field, a plain time.Time

vars == <<phase, th, ts, pc, frame, val, ret, req, resp, log, invoked, gh, lastOk, ncalls,
          lastErr, conv, writeFlag, tsPlain>>

NoFrame == [op |-> "none", recv |-> NilDS, arg |-> zeroTime, sec |-> Zero64]

NoReq == [kind |-> "none", method |-> "", ctype |-> "", hasBody |-> FALSE, body |-> <<>>]

NoResp == [status |-> 0, ctype |-> "", body |-> <<>>]

NoGh == [floor |-> 0, inv |-> 0, quiet |-> FALSE, raced |-> FALSE, hi |-> 0, steps |-> 0,
         pre |-> NilIface]

\* No update has been answered 200 yet.
NoUpdate == [some |-> FALSE, body |-> <<>>]

\* The client has read no rejection yet.
NoReject == [some |-> FALSE, req |-> NoReq, resp |-> NoResp, pre |-> NilIface]

\* toUnixTime has not been called directly.
NoConv == [called |-> FALSE, input |-> <<>>, time |-> zeroTime, sec |-> Zero64, err |-> ErrNone]

Init ==
  /\ phase = "boot"
  /\ th = NilDS
  /\ ts = NilIface
  /\ pc = [t \in Threads |-> "idle"]
  /\ frame = [t \in Threads |-> NoFrame]
  /\ val = [t \in Threads |-> NilIface]
  /\ ret = [t \in Threads |-> NilIface]
  /\ req = [t \in Threads |-> NoReq]
  /\ resp = [t \in Threads |-> NoResp]
  /\ log = <<>>
  /\ invoked = 0
  /\ gh = [t \in Threads |-> NoGh]
  /\ lastOk = NoUpdate
  /\ ncalls = 0
  /\ lastErr = NoReject
  /\ conv = NoConv
  /\ writeFlag = 0
  /\ tsPlain = zeroTime

\* A faulty initial value: one second after the epoch.
initSecOne == One64

\* The epoch-seconds initDataStore stores.
initSec == Zero64

\* A faulty initDataStore() that allocates the store and stores nothing.
initDataStoreBare ==
  /\ phase = "boot"
  /\ phase' = "ready"
  /\ th' = DS
  /\ log' = <<[sec |-> Zero64, time |-> timeUnix(Zero64), raced |-> FALSE]>>
  /\ UNCHANGED <<ts, pc, frame, val, ret, req, resp, invoked, gh, lastOk, lastErr, conv, writeFlag, tsPlain, ncalls>>

\* initDataStore(): th = &dataStore{}; th.store(time.Unix(0, 0)).  It runs in
\* init(), before any other goroutine exists.
initDataStore ==
  /\ phase = "boot"
  /\ phase' = "ready"
  /\ th' = DS
  /\ ts' = atomicStore(ts, timeUnix(initSec))
  /\ log' = <<[sec |-> initSec, time |-> timeUnix(initSec), raced |-> FALSE]>>
  /\ UNCHANGED <<pc, frame, val, ret, req, resp, invoked, gh, lastOk, lastErr, conv, writeFlag, tsPlain, ncalls>>

\* Goroutines are interchangeable: a new call or request runs on the first
\* one that is free.
FirstIdle(t) == pc[t] = "idle" /\ \A u \in Threads : u < t => pc[u] # "idle"

\* Some store() is between its call and its publish.
StoreInFlight == \E u \in Threads : pc[u] = "store_publish"

\* Goroutine t enters ds.store(x) on receiver recv: the nil check.
enterStore(t, recv, x, sec) ==
  /\ frame' = [frame EXCEPT ![t] = [op |-> "store", recv |-> recv, arg |-> x, sec |-> sec]]
  /\ pc' = [pc EXCEPT ![t] = IF nilReceiver(recv) THEN "panicked" ELSE "store_publish"]
  /\ invoked' = invoked + 1
  /\ gh' = [u \in Threads |->
              IF u = t THEN [floor |-> Len(log), inv |-> invoked + 1, quiet |-> FALSE,
                             raced |-> StoreInFlight /\ ~nilReceiver(recv), hi |-> 0,
                             steps |-> 1, pre |-> ts]
              ELSE IF pc[u] = "store_publish" /\ ~nilReceiver(recv)
                THEN [gh[u] EXCEPT !.raced = TRUE]
              ELSE gh[u]]
  /\ val' = [val EXCEPT ![t] = NilIface]
  /\ ret' = [ret EXCEPT ![t] = NilIface]

\* Goroutine t enters ds.get() on receiver recv: the nil check.
enterGet(t, recv) ==
  /\ frame' = [frame EXCEPT ![t] = [op |-> "get", recv |-> recv, arg |-> zeroTime, sec |-> Zero64]]
  /\ pc' = [pc EXCEPT ![t] = IF nilReceiver(recv) THEN "panicked" ELSE "get_load"]
  /\ gh' = [gh EXCEPT ![t] = [floor |-> Len(log), inv |-> invoked, quiet |-> ~StoreInFlight,
                              raced |-> FALSE, hi |-> 0, steps |-> 1, pre |-> ts]]
  /\ val' = [val EXCEPT ![t] = NilIface]
  /\ ret' = [ret EXCEPT ![t] = NilIface]
  /\ UNCHANGED invoked

\* A caller's goroutine t calls recv.store(time.Unix(v, 0)).
store(t, recv, v) ==
  /\ phase = "ready"
  /\ FirstIdle(t)
  /\ ncalls < MaxCalls
  /\ ncalls' = ncalls + 1
  /\ enterStore(t, recv, timeUnix(v), v)
  /\ UNCHANGED <<phase, th, ts, req, resp, log, lastOk, lastErr, conv, writeFlag, tsPlain>>

\* A caller's goroutine t calls recv.get().
get(t, recv) ==
  /\ phase = "ready"
  /\ FirstIdle(t)
  /\ ncalls < MaxCalls
  /\ ncalls' = ncalls + 1
  /\ enterGet(t, recv)
  /\ UNCHANGED <<phase, th, ts, req, resp, log, lastOk, lastErr, conv, writeFlag, tsPlain>>

\* A faulty publish by compare-and-swap against the value seen on entry: a
\* store that raced with another one is silently dropped.
store_publishCas(t) ==
  /\ pc[t] = "store_publish"
  /\ ts' = IF ts = gh[t].pre THEN TimeIface(frame[t].arg) ELSE ts
  /\ log' = Append(log, [sec |-> frame[t].sec, time |-> frame[t].arg, raced |-> gh[t].raced])
  /\ pc' = [pc EXCEPT ![t] = IF req[t].kind = "update" THEN "update_ok" ELSE "returned"]
  /\ gh' = [gh EXCEPT ![t].steps = @ + 1, ![t].hi = Len(log) + 1]
  /\ UNCHANGED <<phase, th, frame, val, ret, req, resp, invoked, lastOk, lastErr, conv, writeFlag, tsPlain, ncalls>>

\* ds.ts.Store(ts), and store() returns to its caller.
store_publish(t) ==
  /\ pc[t] = "store_publish"
  /\ ts' = atomicStore(ts, frame[t].arg)
  /\ log' = Append(log, [sec |-> frame[t].sec, time |-> frame[t].arg, raced |-> gh[t].raced])
  /\ pc' = [pc EXCEPT ![t] = IF req[t].kind = "update" THEN "update_ok" ELSE "returned"]
  /\ gh' = [gh EXCEPT ![t].steps = @ + 1, ![t].hi = Len(log) + 1]
  /\ UNCHANGED <<phase, th, frame, val, ret, req, resp, invoked, lastOk, lastErr, conv, writeFlag, tsPlain, ncalls>>

\* A faulty get() that spins while a store() is in progress, as a reader that
\* polls a write-in-progress flag does.
get_loadSpin(t) ==
  /\ pc[t] = "get_load"
  /\ IF StoreInFlight
       THEN /\ gh' = [gh EXCEPT ![t].steps = IF @ < 9 THEN @ + 1 ELSE @]
            /\ UNCHANGED <<val, pc>>
       ELSE /\ val' = [val EXCEPT ![t] = ts]
            /\ pc' = [pc EXCEPT ![t] = "get_assert"]
            /\ gh' = [gh EXCEPT ![t].steps = @ + 1]
  /\ UNCHANGED <<phase, th, ts, frame, ret, req, resp, log, invoked, lastOk, lastErr, conv, writeFlag, tsPlain, ncalls>>

\* A faulty get() that takes the value out with ds.ts.Swap(time.Unix(0, 0)).
get_loadSwap(t) ==
  /\ pc[t] = "get_load"
  /\ val' = [val EXCEPT ![t] = ts]
  /\ ts' = TimeIface(timeUnix(Zero64))
  /\ pc' = [pc EXCEPT ![t] = "get_assert"]
  /\ gh' = [gh EXCEPT ![t].steps = @ + 1]
  /\ UNCHANGED <<phase, th, frame, ret, req, resp, log, invoked, lastOk, lastErr, conv,
                 writeFlag, tsPlain, ncalls>>

\* val := ds.ts.Load().
get_load(t) ==
  /\ pc[t] = "get_load"
  /\ val' = [val EXCEPT ![t] = atomicLoad(ts)]
  /\ pc' = [pc EXCEPT ![t] = "get_assert"]
  /\ gh' = [gh EXCEPT ![t].steps = @ + 1]
  /\ UNCHANGED <<phase, th, ts, frame, ret, req, resp, log, invoked, lastOk, lastErr, conv, writeFlag, tsPlain, ncalls>>

\* return val.(time.Time): the assertion panics on any other dynamic type.
get_assert(t) ==
  /\ pc[t] = "get_assert"
  /\ pc' = [pc EXCEPT ![t] = IF ~assertTime(val[t]) THEN "panicked"
                             ELSE IF req[t].kind = "retrieve" THEN "retrieve_write"
                             ELSE "returned"]
  /\ ret' = [ret EXCEPT ![t] = IF assertTime(val[t]) THEN val[t] ELSE NilIface]
  /\ gh' = [gh EXCEPT ![t].steps = @ + 1, ![t].hi = Len(log),
                      ![t].quiet = @ /\ invoked = gh[t].inv]
  /\ UNCHANGED <<phase, th, ts, frame, val, req, resp, log, invoked, lastOk, lastErr, conv, writeFlag, tsPlain, ncalls>>

\* The caller has taken the result; its goroutine is free for another call.
release(t) ==
  /\ pc[t] \in {"returned", "responded"}
  /\ pc' = [pc EXCEPT ![t] = "idle"]
  /\ frame' = [frame EXCEPT ![t] = NoFrame]
  /\ val' = [val EXCEPT ![t] = NilIface]
  /\ ret' = [ret EXCEPT ![t] = NilIface]
  /\ req' = [req EXCEPT ![t] = NoReq]
  /\ resp' = [resp EXCEPT ![t] = NoResp]
  /\ gh' = [gh EXCEPT ![t] = NoGh]
  /\ UNCHANGED <<phase, th, ts, log, invoked, lastOk, lastErr, conv, writeFlag, tsPlain, ncalls>>

(***************************************************************************)
(* The HTTP handlers.                                                      *)
(***************************************************************************)
maxReqBytes == 1024

\* n bytes "0".
Zeros(n) == [i \in 1..n |-> "0"]

\* n zero bytes, which are no digits: make([]byte, n).
Nuls(n) == [i \in 1..n |-> "NUL"]

\* The request bodies the model sends.
Bodies ==
  { <<"2", "0", "0">>, <<"1", "0", "0", "0">>, <<"0">>, <<"+", "7">>,
    <<"i", "n", "v", "a", "l", "i", "d">>, <<"-", "1">>, <<>>,
    FormatInt(MaxInt64),
    <<"9", "2", "2", "3", "3", "7", "2", "0", "3", "6", "8", "5", "4", "7", "7", "5", "8", "0", "8">>,
    Zeros(maxReqBytes), Zeros(maxReqBytes + 1), Nuls(maxReqBytes + 1) }

Methods == {"PUT", "GET", "POST"}

ContentTypes == {"text/plain", "application/json"}

\* The requests routed to update: r.Body may be nil only in a hand-built request.
UpdateRequests ==
  [kind : {"update"}, method : Methods, ctype : ContentTypes, hasBody : {TRUE}, body : Bodies]
    \cup [kind : {"update"}, method : Methods, ctype : ContentTypes, hasBody : {FALSE}, body : {<<>>}]

\* The requests routed to retrieve.
RetrieveRequests ==
  [kind : {"retrieve"}, method : Methods, ctype : {""}, hasBody : {FALSE}, body : {<<>>}]

\* http.Error(w, msg, code): the message and a newline, as plain text.
httpError(msg, code) ==
  [status |-> code, ctype |-> "text/plain; charset=utf-8", body |-> <<msg, "\n">>]

\* timestamp.toInt64().
toInt64(s) ==
  LET result(p) == IF p.err # ErrNone THEN [n |-> p.n, err |-> "invalid timestamp"]
                   ELSE [n |-> p.n, err |-> ErrNone]
  IN  result(ParseInt(s))

\* What toUnixTime returns with an error: time.Time{} and the error.
noTime(err) == [time |-> zeroTime, sec |-> Zero64, err |-> err]

\* A faulty toUnixTime() whose sign check is tsI64 <= 0: it refuses the epoch.
toUnixTimeLeq(s) ==
  LET result(p) == IF p.err # ErrNone THEN noTime(p.err)
                   ELSE IF IsNeg64(p.n) \/ p.n = Zero64
                     THEN noTime("timestamp supplied is negative")
                   ELSE [time |-> timeUnix(p.n), sec |-> p.n, err |-> ErrNone]
  IN  result(toInt64(s))

\* A faulty toUnixTime() with no sign check: a negative integer is converted.
toUnixTimeNoSign(s) ==
  LET result(p) == IF p.err # ErrNone THEN noTime(p.err)
                   ELSE [time |-> timeUnix(p.n), sec |-> p.n, err |-> ErrNone]
  IN  result(toInt64(s))

\* timestamp.toUnixTime().
toUnixTime(s) ==
  LET result(p) == IF p.err # ErrNone THEN noTime(p.err)
                   ELSE IF IsNeg64(p.n) THEN noTime("timestamp supplied is negative")
                   ELSE [time |-> timeUnix(p.n), sec |-> p.n, err |-> ErrNone]
  IN  result(toInt64(s))

\* The bytes a timestamp is made of in the direct calls of toUnixTime.
TsBytes == {"0", "1", "9", "-", "+", "x"}

\* Timestamps of up to MaxTsLen bytes are tried in every combination.
MaxTsLen == 3

\* The timestamps toUnixTime is called on directly: the short ones, the ones of
\* TestTimestamp, the request bodies, and the ones around the 64-bit limits.
Timestamps ==
  UNION {[1..n -> TsBytes] : n \in 0..MaxTsLen}
    \cup Bodies
    \cup { <<"1", "2", "3", "4", "5", "6", "7">>,
           <<"n", "o", "t", "v", "a", "l", "i", "d", "t", "s">>,
           <<"-">> \o FormatInt(MaxInt64),
           <<"-", "9", "2", "2", "3", "3", "7", "2", "0", "3", "6", "8", "5", "4", "7", "7", "5", "8", "0", "8">>,
           <<"-", "9", "2", "2", "3", "3", "7", "2", "0", "3", "6", "8", "5", "4", "7", "7", "5", "8", "0", "9">>,
           <<"1", "8", "4", "4", "6", "7", "4", "4", "0", "7", "3", "7", "0", "9", "5", "5", "1", "6", "1", "5">>,
           <<"1", "8", "4", "4", "6", "7", "4", "4", "0", "7", "3", "7", "0", "9", "5", "5", "1", "6", "1", "6">>,
           <<"9", "9", "9", "9", "9", "9", "9", "9", "9", "9", "9", "9", "9", "9", "9", "9", "9", "9", "9", "9", "9">>,
           <<"0", "0", "0", "0", "0", "0", "0", "0", "0", "0", "0", "0", "0", "0", "0", "0", "0", "0", "0", "0", "0", "4", "2">>,
           <<" ", "1">>, <<"1", "_", "0">>, <<"0", "x", "1", "0">>, <<"1", ".", "0">>, <<"1", "e", "3">> }

\* A test calls timestamp(s).toUnixTime(), once, and keeps what it returns.
callToUnixTime(s) ==
  LET keep(u) == conv' = [called |-> TRUE, input |-> s, time |-> u.time, sec |-> u.sec,
                          err |-> u.err]
  IN  /\ ~conv.called
      /\ keep(toUnixTime(s))
      /\ UNCHANGED <<phase, th, ts, pc, frame, val, ret, req, resp, log, invoked, gh, lastOk,
                     ncalls, lastErr, writeFlag, tsPlain>>

NextParse == \E s \in Timestamps : callToUnixTime(s)

\* One direct call of toUnixTime, on any of the timestamps.
SpecParse == Init /\ [][NextParse]_vars

\* A faulty limit that is off by one: a body of maxReqBytes bytes fails too.
readFailsAtLimit(r) == Len(r.body) >= maxReqBytes

\* io.ReadAll of http.MaxBytesReader(w, r.Body, maxReqBytes) fails.
readFails(r) == Len(r.body) > maxReqBytes

\* A faulty update that answers a timestamp it cannot convert with the text of
\* toUnixTime's error: http.Error(w, err.Error(), http.StatusBadRequest).
updateCheckErrText(r) ==
  LET parsed(unixTime) ==
        IF unixTime.err # ErrNone
          THEN [ok |-> FALSE, resp |-> httpError(unixTime.err, 400), u |-> unixTime]
        ELSE [ok |-> TRUE, resp |-> NoResp, u |-> unixTime]
  IN
  IF r.method # "PUT"
    THEN [ok |-> FALSE, resp |-> httpError("method not allowed", 405), u |-> noTime("")]
  ELSE IF r.ctype # "text/plain"
    THEN [ok |-> FALSE, resp |-> httpError("only text/plain content-type is allowed", 400),
          u |-> noTime("")]
  ELSE IF ~r.hasBody
    THEN [ok |-> FALSE, resp |-> httpError("request body missing", 400), u |-> noTime("")]
  ELSE IF readFails(r)
    THEN [ok |-> FALSE, resp |-> httpError("invalid request body", 400), u |-> noTime("")]
  ELSE parsed(toUnixTime(r.body))

\* A faulty update that looks at the content type before the method.
updateCheckCtypeFirst(r) ==
  LET parsed(unixTime) ==
        IF unixTime.err # ErrNone
          THEN [ok |-> FALSE, resp |-> httpError("invalid timestamp in request body", 400),
                u |-> unixTime]
        ELSE [ok |-> TRUE, resp |-> NoResp, u |-> unixTime]
  IN
  IF r.ctype # "text/plain"
    THEN [ok |-> FALSE, resp |-> httpError("only text/plain content-type is allowed", 400),
          u |-> noTime("")]
  ELSE IF r.method # "PUT"
    THEN [ok |-> FALSE, resp |-> httpError("method not allowed", 405), u |-> noTime("")]
  ELSE IF ~r.hasBody
    THEN [ok |-> FALSE, resp |-> httpError("request body missing", 400), u |-> noTime("")]
  ELSE IF readFails(r)
    THEN [ok |-> FALSE, resp |-> httpError("invalid request body", 400), u |-> noTime("")]
  ELSE parsed(toUnixTime(r.body))

\* update's checks, in the handler's order: the error response of the first
\* check that fails, or the time to store.
updateCheck(r) ==
  LET parsed(unixTime) ==
        IF unixTime.err # ErrNone
          THEN [ok |-> FALSE, resp |-> httpError("invalid timestamp in request body", 400),
                u |-> unixTime]
        ELSE [ok |-> TRUE, resp |-> NoResp, u |-> unixTime]
  IN
  IF r.method # "PUT"
    THEN [ok |-> FALSE, resp |-> httpError("method not allowed", 405), u |-> noTime("")]
  ELSE IF r.ctype # "text/plain"
    THEN [ok |-> FALSE, resp |-> httpError("only text/plain content-type is allowed", 400),
          u |-> noTime("")]
  ELSE IF ~r.hasBody
    THEN [ok |-> FALSE, resp |-> httpError("request body missing", 400), u |-> noTime("")]
  ELSE IF readFails(r)
    THEN [ok |-> FALSE, resp |-> httpError("invalid request body", 400), u |-> noTime("")]
  ELSE parsed(toUnixTime(r.body))

\* updateCheck over the requests the model sends, evaluated once for each.
updateChecked == {[r |-> r, c |-> updateCheck(r)] : r \in UpdateRequests}

\* A faulty update(w, r) that stores the parsed integer before it looks at its
\* sign: a negative body is stored and then answered 400.
updateStoreFirst(t, r) ==
  LET act(c, p) ==
        IF c.ok
          THEN /\ enterStore(t, th, c.u.time, c.u.sec)
               /\ UNCHANGED <<resp, ts, log>>
        ELSE IF r.method = "PUT" /\ r.ctype = "text/plain" /\ r.hasBody /\ ~readFails(r)
                /\ p.err = ErrNone
          THEN /\ ts' = TimeIface(timeUnix(p.n))
               /\ log' = Append(log, [sec |-> p.n, time |-> timeUnix(p.n), raced |-> FALSE])
               /\ invoked' = invoked + 1
               /\ resp' = [resp EXCEPT ![t] = c.resp]
               /\ pc' = [pc EXCEPT ![t] = "responded"]
               /\ gh' = [gh EXCEPT ![t] = [floor |-> Len(log), inv |-> invoked, quiet |-> FALSE,
                                           raced |-> FALSE, hi |-> 0, steps |-> 0, pre |-> ts]]
               /\ UNCHANGED <<frame, val, ret>>
        ELSE /\ resp' = [resp EXCEPT ![t] = c.resp]
             /\ pc' = [pc EXCEPT ![t] = "responded"]
             /\ gh' = [gh EXCEPT ![t] = [floor |-> Len(log), inv |-> invoked, quiet |-> FALSE,
                                         raced |-> FALSE, hi |-> 0, steps |-> 0, pre |-> ts]]
             /\ UNCHANGED <<frame, val, ret, invoked, ts, log>>
  IN  /\ FirstIdle(t)
      /\ ncalls < MaxCalls
      /\ ncalls' = ncalls + 1
      /\ req' = [req EXCEPT ![t] = r]
      /\ act(updateCheck(r), toInt64(r.body))
      /\ UNCHANGED <<phase, th, lastOk, lastErr, conv, writeFlag, tsPlain>>

\* A faulty update(w, r) with no return after the content-type error: it goes
\* on to the checks that follow and stores when they pass.
updateNoReturn(t, r) ==
  LET reject(c) ==
        /\ resp' = [resp EXCEPT ![t] = c.resp]
        /\ pc' = [pc EXCEPT ![t] = "responded"]
        /\ gh' = [gh EXCEPT ![t] = [floor |-> Len(log), inv |-> invoked, quiet |-> FALSE,
                                    raced |-> FALSE, hi |-> 0, steps |-> 0, pre |-> ts]]
        /\ UNCHANGED <<frame, val, ret, invoked>>
      act(c, d) ==
        IF c.ok
          THEN /\ enterStore(t, th, c.u.time, c.u.sec)
               /\ UNCHANGED resp
        ELSE IF r.method = "PUT" /\ r.ctype # "text/plain" /\ d.ok
          THEN /\ enterStore(t, th, d.u.time, d.u.sec)
               /\ resp' = [resp EXCEPT ![t] = c.resp]
        ELSE reject(c)
  IN  /\ FirstIdle(t)
      /\ ncalls < MaxCalls
      /\ ncalls' = ncalls + 1
      /\ req' = [req EXCEPT ![t] = r]
      /\ act(updateCheck(r), updateCheck([r EXCEPT !.ctype = "text/plain"]))
      /\ UNCHANGED <<phase, th, ts, log, lastOk, lastErr, conv, writeFlag, tsPlain>>

\* update(w, r) on goroutine t, up to its response or its call of th.store.
update(t, r) ==
  LET act(c) ==
        IF c.ok
          THEN /\ enterStore(t, th, c.u.time, c.u.sec)
               /\ UNCHANGED resp
          ELSE /\ resp' = [resp EXCEPT ![t] = c.resp]
               /\ pc' = [pc EXCEPT ![t] = "responded"]
               /\ gh' = [gh EXCEPT ![t] = [floor |-> Len(log), inv |-> invoked, quiet |-> FALSE,
                                           raced |-> FALSE, hi |-> 0, steps |-> 0, pre |-> ts]]
               /\ UNCHANGED <<frame, val, ret, invoked>>
  IN  /\ FirstIdle(t)
      /\ ncalls < MaxCalls
      /\ ncalls' = ncalls + 1
      /\ req' = [req EXCEPT ![t] = r]
      /\ act((CHOOSE p \in updateChecked : p.r = r).c)
      /\ UNCHANGED <<phase, th, ts, log, lastOk, lastErr, conv, writeFlag, tsPlain>>

\* w.WriteHeader(http.StatusOK) once th.store has returned.
update_respond(t) ==
  /\ pc[t] = "update_ok"
  /\ resp' = [resp EXCEPT ![t] = [status |-> 200, ctype |-> "", body |-> <<>>]]
  /\ pc' = [pc EXCEPT ![t] = "responded"]
  /\ lastOk' = [some |-> TRUE, body |-> req[t].body]
  /\ UNCHANGED <<phase, th, ts, frame, val, ret, req, log, invoked, gh, ncalls,
                 lastErr, conv, writeFlag, tsPlain>>

\* A faulty retrieve(w, r) with no return after the method error: the stored
\* timestamp is written after the message.
retrieveNoReturn(t, r) ==
  /\ FirstIdle(t)
  /\ ncalls < MaxCalls
  /\ ncalls' = ncalls + 1
  /\ req' = [req EXCEPT ![t] = r]
  /\ IF r.method # "GET"
       THEN /\ resp' = [resp EXCEPT ![t] =
                         [httpError("method not allowed", 405) EXCEPT
                            !.body = @ \o FormatInt(Unix(ts.data))]]
            /\ pc' = [pc EXCEPT ![t] = "responded"]
            /\ gh' = [gh EXCEPT ![t] = [floor |-> Len(log), inv |-> invoked, quiet |-> FALSE,
                                        raced |-> FALSE, hi |-> 0, steps |-> 0, pre |-> ts]]
            /\ UNCHANGED <<frame, val, ret, invoked>>
       ELSE /\ enterGet(t, th)
            /\ UNCHANGED resp
  /\ UNCHANGED <<phase, th, ts, log, lastOk, lastErr, conv, writeFlag, tsPlain>>

\* retrieve(w, r) on goroutine t, up to its 405 or its call of th.get.
retrieve(t, r) ==
  /\ FirstIdle(t)
  /\ ncalls < MaxCalls
  /\ ncalls' = ncalls + 1
  /\ req' = [req EXCEPT ![t] = r]
  /\ IF r.method # "GET"
       THEN /\ resp' = [resp EXCEPT ![t] = httpError("method not allowed", 405)]
            /\ pc' = [pc EXCEPT ![t] = "responded"]
            /\ gh' = [gh EXCEPT ![t] = [floor |-> Len(log), inv |-> invoked, quiet |-> FALSE,
                                        raced |-> FALSE, hi |-> 0, steps |-> 0, pre |-> ts]]
            /\ UNCHANGED <<frame, val, ret, invoked>>
       ELSE /\ enterGet(t, th)
            /\ UNCHANGED resp
  /\ UNCHANGED <<phase, th, ts, log, lastOk, lastErr, conv, writeFlag, tsPlain>>

\* w.Write([]byte(strconv.FormatInt(th.get().Unix(), 10))), as text/plain.
retrieve_write(t) ==
  /\ pc[t] = "retrieve_write"
  /\ resp' = [resp EXCEPT ![t] = [status |-> 200, ctype |-> "text/plain",
                                  body |-> FormatInt(Unix(ret[t].data))]]
  /\ pc' = [pc EXCEPT ![t] = "responded"]
  /\ UNCHANGED <<phase, th, ts, frame, val, ret, req, log, invoked, gh, lastOk, lastErr, conv, writeFlag, tsPlain, ncalls>>

\* No request is being served: a client that issues its requests one after
\* another sends the next one now.  The tests call the handlers once init()
\* has run.
Quiescent == \A u \in Threads : pc[u] = "idle"

NextHttp ==
  \/ initDataStore
  \/ \E t \in Threads :
       \/ \E r \in UpdateRequests : phase = "ready" /\ Quiescent /\ update(t, r)
       \/ \E r \in RetrieveRequests : phase = "ready" /\ Quiescent /\ retrieve(t, r)
       \/ store_publish(t)
       \/ update_respond(t)
       \/ get_load(t)
       \/ get_assert(t)
       \/ retrieve_write(t)
       \/ release(t)

\* The requests served one at a time.
SpecHttp == Init /\ [][NextHttp]_vars

\* The client reads the response (io.ReadAll(res.Body)) and keeps the latest
\* rejection it got, with the value the store held when that request arrived.
receive(t) ==
  /\ pc[t] = "responded"
  /\ lastErr' = IF resp[t].status # 200
                  THEN [some |-> TRUE, req |-> req[t], resp |-> resp[t], pre |-> gh[t].pre]
                  ELSE lastErr
  /\ pc' = [pc EXCEPT ![t] = "idle"]
  /\ frame' = [frame EXCEPT ![t] = NoFrame]
  /\ val' = [val EXCEPT ![t] = NilIface]
  /\ ret' = [ret EXCEPT ![t] = NilIface]
  /\ req' = [req EXCEPT ![t] = NoReq]
  /\ resp' = [resp EXCEPT ![t] = NoResp]
  /\ gh' = [gh EXCEPT ![t] = NoGh]
  /\ UNCHANGED <<phase, th, ts, log, invoked, lastOk, ncalls, conv, writeFlag, tsPlain>>

\* The updates this client sends: those with a body shorter than the limit.
ClientUpdates == {r \in UpdateRequests : Len(r.body) < maxReqBytes}

NextClient ==
  \/ initDataStore
  \/ \E t \in Threads :
       \/ \E r \in ClientUpdates : phase = "ready" /\ Quiescent /\ update(t, r)
       \/ \E r \in RetrieveRequests : phase = "ready" /\ Quiescent /\ retrieve(t, r)
       \/ store_publish(t)
       \/ update_respond(t)
       \/ get_load(t)
       \/ get_assert(t)
       \/ retrieve_write(t)
       \/ receive(t)

\* The requests served one at a time to a client that compares the rejections
\* it gets.
SpecClient == Init /\ [][NextClient]_vars

(***************************************************************************)
(* The process: init() runs before main(), main() starts the server in a   *)
(* goroutine of its own, and the server runs the handler of each request   *)
(* in a goroutine of its own, so handlers interleave.                      *)
(***************************************************************************)
\* A faulty start of the server from init(), ahead of initDataStore().
startHTTPServerEarly ==
  /\ phase = "boot"
  /\ phase' = "serving"
  /\ UNCHANGED <<th, ts, pc, frame, val, ret, req, resp, log, invoked, gh, lastOk, ncalls,
                 lastErr, conv, writeFlag, tsPlain>>

\* go startHTTPServer() in main(): httpServer.ListenAndServe() accepts
\* connections.  main() runs once every init() has returned.
startHTTPServer ==
  /\ phase = "ready"
  /\ phase' = "serving"
  /\ UNCHANGED <<th, ts, pc, frame, val, ret, req, resp, log, invoked, gh, lastOk, ncalls,
                 lastErr, conv, writeFlag, tsPlain>>

\* The bodies of the updates sent to the server.
ServedBodies ==
  { <<"0">>, <<"-", "1">>, <<"i", "n", "v", "a", "l", "i", "d">>, FormatInt(MaxInt64) }

\* The updates sent to the server: PUTs of text/plain.
ServedUpdates ==
  {r \in UpdateRequests :
     r.hasBody /\ r.body \in ServedBodies /\ r.ctype = "text/plain" /\ r.method = "PUT"}

\* The retrieves sent to the server: a GET, and a POST that is refused.
ServedRetrieves == {r \in RetrieveRequests : r.method \in {"GET", "POST"}}

\* The server routes a request on putPath to update and one on getPath to
\* retrieve, each on the goroutine of its connection.
NextServe ==
  \/ initDataStore
  \/ startHTTPServer
  \/ \E t \in Threads :
       \/ \E r \in ServedUpdates : phase = "serving" /\ update(t, r)
       \/ \E r \in ServedRetrieves : phase = "serving" /\ retrieve(t, r)
       \/ store_publish(t)
       \/ update_respond(t)
       \/ get_load(t)
       \/ get_assert(t)
       \/ retrieve_write(t)
       \/ release(t)

\* The running process, its requests served concurrently.
SpecServe == Init /\ [][NextServe]_vars

\* The receivers a caller can hold: the process-wide handler, or a nil *dataStore.
Receivers == {th, NilDS}

Next ==
  \/ initDataStore
  \/ \E t \in Threads :
       \/ \E recv \in Receivers, v \in StoreArgs : store(t, recv, v)
       \/ \E recv \in Receivers : get(t, recv)
       \/ store_publish(t)
       \/ get_load(t)
       \/ get_assert(t)
       \/ release(t)

Spec == Init /\ [][Next]_vars

(***************************************************************************)
(* The flag-based dataStore, an earlier variant of the store: a plain       *)
(* time.Time field ts and a uint32 writeFlag.  store() sets the flag, writes *)
(* ts and clears the flag on return (the deferred unsetWrite); get() loads  *)
(* the flag until it reads 0 and then reads ts.  The flag is accessed with  *)
(* sync/atomic; ts is written and read with plain accesses, one word at a   *)
(* time: of the words of a time.Time, wall is 0 in every value stored       *)
(* here, so ext and loc are the words that change.  The process-wide ds is  *)
(* &dataStore{} from init() on, so the receiver is never nil.  A goroutine  *)
(* inside store() is at "setWrite", "write_ext", "write_loc" or            *)
(* "unsetWrite" (before the step of that name), one inside get() at        *)
(* "loadFlag", "read_ext" or "read_loc".                                   *)
(***************************************************************************)
\* Iterations of get()'s loop that are counted; further ones change nothing.
MaxSpin == 3

\* Calls of store() and get() made on the flag-based dataStore in one run.
MaxFlagCalls == 2

\* Goroutine u has set the flag in store() and not yet cleared it.
InWindow(u) == frame[u].op = "store" /\ pc[u] \in {"write_ext", "write_loc", "unsetWrite"}

\* Goroutine u is inside store() at the assignment to ds.ts.
Writing(u) == frame[u].op = "store" /\ pc[u] \in {"write_ext", "write_loc"}

\* ds.store(v) is called on goroutine t: the nil check passes.
flagStore(t, v) ==
  /\ FirstIdle(t)
  /\ ncalls < MaxFlagCalls
  /\ ncalls' = ncalls + 1
  /\ frame' = [frame EXCEPT ![t] = [op |-> "store", recv |-> DS, arg |-> timeUnix(v), sec |-> v]]
  /\ pc' = [pc EXCEPT ![t] = "setWrite"]
  /\ gh' = [gh EXCEPT ![t] = [NoGh EXCEPT !.steps = 0]]
  /\ UNCHANGED <<phase, th, ts, val, ret, req, resp, log, invoked, lastOk, lastErr, conv,
                 writeFlag, tsPlain>>

\* ds.setWrite(): atomic.StoreUint32(&ds.writeFlag, 1).
setWrite(t) ==
  /\ pc[t] = "setWrite"
  /\ writeFlag' = 1
  /\ pc' = [pc EXCEPT ![t] = "write_ext"]
  /\ UNCHANGED <<phase, th, ts, frame, val, ret, req, resp, log, invoked, gh, lastOk, ncalls,
                 lastErr, conv, tsPlain>>

\* ds.ts = time.Unix(ts, 0), the word ext.
write_ext(t) ==
  /\ pc[t] = "write_ext"
  /\ tsPlain' = [tsPlain EXCEPT !.ext = frame[t].arg.ext]
  /\ pc' = [pc EXCEPT ![t] = "write_loc"]
  /\ gh' = [gh EXCEPT ![t].raced = @ \/ writeFlag = 0]
  /\ UNCHANGED <<phase, th, ts, frame, val, ret, req, resp, log, invoked, lastOk, ncalls,
                 lastErr, conv, writeFlag>>

\* ds.ts = time.Unix(ts, 0), the word loc.
write_loc(t) ==
  /\ pc[t] = "write_loc"
  /\ tsPlain' = [tsPlain EXCEPT !.loc = frame[t].arg.loc]
  /\ pc' = [pc EXCEPT ![t] = "unsetWrite"]
  /\ gh' = [gh EXCEPT ![t].raced = @ \/ writeFlag = 0]
  /\ UNCHANGED <<phase, th, ts, frame, val, ret, req, resp, log, invoked, lastOk, ncalls,
                 lastErr, conv, writeFlag>>

\* The deferred ds.unsetWrite(): atomic.StoreUint32(&ds.writeFlag, 0), and
\* store() returns.
unsetWrite(t) ==
  /\ pc[t] = "unsetWrite"
  /\ writeFlag' = 0
  /\ pc' = [pc EXCEPT ![t] = "returned"]
  /\ UNCHANGED <<phase, th, ts, frame, val, ret, req, resp, log, invoked, gh, lastOk, ncalls,
                 lastErr, conv, tsPlain>>

\* ds.get() is called on goroutine t: the nil check passes.
flagGet(t) ==
  /\ FirstIdle(t)
  /\ ncalls < MaxFlagCalls
  /\ ncalls' = ncalls + 1
  /\ frame' = [frame EXCEPT ![t] = [op |-> "get", recv |-> DS, arg |-> zeroTime, sec |-> Zero64]]
  /\ pc' = [pc EXCEPT ![t] = "loadFlag"]
  /\ gh' = [gh EXCEPT ![t] = [NoGh EXCEPT !.steps = 0]]
  /\ val' = [val EXCEPT ![t] = NilIface]
  /\ ret' = [ret EXCEPT ![t] = NilIface]
  /\ UNCHANGED <<phase, th, ts, req, resp, log, invoked, lastOk, lastErr, conv, writeFlag,
                 tsPlain>>

\* A faulty loop that gives up after two iterations and reads ts anyway.
loadFlagTwice(t) ==
  /\ pc[t] = "loadFlag"
  /\ IF writeFlag # 0 /\ gh[t].steps < 2
       THEN /\ gh' = [gh EXCEPT ![t].steps = @ + 1]
            /\ UNCHANGED pc
       ELSE /\ pc' = [pc EXCEPT ![t] = "read_ext"]
            /\ UNCHANGED gh
  /\ UNCHANGED <<phase, th, ts, frame, val, ret, req, resp, log, invoked, lastOk, ncalls,
                 lastErr, conv, writeFlag, tsPlain>>

\* for atomic.LoadUint32(&ds.writeFlag) != readable {}: one load of the flag.
\* The loop goes round when it reads 1 and is left when it reads 0.
loadFlag(t) ==
  /\ pc[t] = "loadFlag"
  /\ IF writeFlag # 0
       THEN /\ gh' = [gh EXCEPT ![t].steps = IF @ < MaxSpin THEN @ + 1 ELSE @]
            /\ UNCHANGED pc
       ELSE /\ pc' = [pc EXCEPT ![t] = "read_ext"]
            /\ UNCHANGED gh
  /\ UNCHANGED <<phase, th, ts, frame, val, ret, req, resp, log, invoked, lastOk, ncalls,
                 lastErr, conv, writeFlag, tsPlain>>

\* return ds.ts, the word ext.
read_ext(t) ==
  /\ pc[t] = "read_ext"
  /\ val' = [val EXCEPT ![t] = TimeIface([zeroTime EXCEPT !.ext = tsPlain.ext])]
  /\ pc' = [pc EXCEPT ![t] = "read_loc"]
  /\ gh' = [gh EXCEPT ![t].raced = @ \/ \E u \in Threads : InWindow(u)]
  /\ UNCHANGED <<phase, th, ts, frame, ret, req, resp, log, invoked, lastOk, ncalls,
                 lastErr, conv, writeFlag, tsPlain>>

\* return ds.ts, the word loc, and get() returns the words it has read.
read_loc(t) ==
  /\ pc[t] = "read_loc"
  /\ ret' = [ret EXCEPT ![t] = TimeIface([val[t].data EXCEPT !.loc = tsPlain.loc])]
  /\ pc' = [pc EXCEPT ![t] = "returned"]
  /\ gh' = [gh EXCEPT ![t].raced = @ \/ \E u \in Threads : InWindow(u)]
  /\ UNCHANGED <<phase, th, ts, frame, val, req, resp, log, invoked, lastOk, ncalls,
                 lastErr, conv, writeFlag, tsPlain>>

NextFlag ==
  \E t \in Threads :
    \/ \E v \in StoreArgs : flagStore(t, v)
    \/ flagGet(t)
    \/ setWrite(t)
    \/ write_ext(t)
    \/ write_loc(t)
    \/ unsetWrite(t)
    \/ loadFlag(t)
    \/ read_ext(t)
    \/ read_loc(t)
    \/ release(t)

\* Concurrent store() and get() calls on the flag-based dataStore.  No
\* fairness: a goroutine may stop anywhere.
SpecFlag == Init /\ [][NextFlag]_vars

(***************************************************************************)
(* Properties.                                                             *)
(***************************************************************************)
\* get() has returned a value on goroutine t (to a caller or to retrieve).
GotReturned(t) ==
  frame[t].op = "get" /\ pc[t] \in {"returned", "retrieve_write", "responded"}

\* store() has returned on goroutine t.
StoreReturned(t) ==
  frame[t].op = "store" /\ pc[t] \in {"returned", "update_ok", "responded"}

\* The values published from the lo-th to the hi-th publish.
Published(lo, hi) == {log[j].time : j \in lo..hi}

\* C1: no tearing.  Whatever the interleaving of store() and get() calls, the
\* value a get() returns is exactly the argument of one store() published by
\* then, or the initial value; never a mixture of two of them.
NoTearing ==
  \A t \in Threads : GotReturned(t) => ret[t].data \in Published(1, gh[t].hi)

\* A get() has returned the value of a store() that was published while the
\* get() was running, over a different older value.
NoTearingWitness ==
  \E t \in Threads :
    /\ GotReturned(t)
    /\ gh[t].hi > gh[t].floor
    /\ ret[t].data = log[gh[t].hi].time
    /\ ret[t].data # log[gh[t].floor].time

\* C2: no stale read.  A get() returns the value that was the latest one
\* published when the get() began (every store() that had completed by then
\* had published at or before it) or one published later; never an older one.
NoStaleRead ==
  \A t \in Threads :
    GotReturned(t) => ret[t].data \in Published(gh[t].floor, gh[t].hi)

\* A get() that began after two store() calls of different values had completed
\* has returned the second.
NoStaleReadWitness ==
  \E t \in Threads :
    /\ GotReturned(t)
    /\ gh[t].floor >= 3
    /\ log[gh[t].floor].time # log[gh[t].floor - 1].time
    /\ log[gh[t].floor].time # log[1].time
    /\ ret[t].data = log[gh[t].floor].time

\* C3: last writer wins.  A get() that begins when every store() issued has
\* completed, and during which no store() is issued, returns the value whose
\* publish was the last; so does every later such get().
LastWriterWins ==
  \A t \in Threads :
    GotReturned(t) /\ gh[t].quiet => ret[t].data = log[gh[t].floor].time

\* Two store() calls of different values were in progress together, both have
\* completed, and a get() issued afterwards has returned.
LastWriterWinsWitness ==
  \E t \in Threads :
    /\ GotReturned(t)
    /\ gh[t].quiet
    /\ gh[t].floor >= 3
    /\ log[gh[t].floor].raced
    /\ log[gh[t].floor - 1].raced
    /\ log[gh[t].floor].time # log[gh[t].floor - 1].time

\* C4: race freedom and no crash.  On the initialized process-wide store no
\* store() and no get() panics, the value get() loads always has the dynamic
\* type time.Time, and the store holds exactly the value of the latest atomic
\* publish: nothing else writes it.
NoCrash ==
  /\ \A t \in Threads :
       frame[t].op # "none" /\ frame[t].recv = DS =>
         /\ pc[t] # "panicked"
         /\ pc[t] = "get_assert" => assertTime(val[t])
  /\ phase = "ready" => ts = TimeIface(log[Len(log)].time)

\* A store() and a get() that ran together on the process-wide store have both
\* returned, the get() with the value another store() had published.
NoCrashWitness ==
  \E t, u \in Threads :
    /\ GotReturned(t) /\ frame[t].recv = DS
    /\ StoreReturned(u) /\ frame[u].recv = DS
    /\ gh[u].inv <= gh[t].inv
    /\ gh[u].hi > gh[t].floor
    /\ Len(log) >= 3

\* The step goroutine t takes next inside store() or get().
OwnStep(t) == store_publish(t) \/ get_load(t) \/ get_assert(t)

\* C5: wait-freedom.  A goroutine inside store() or get() on the initialized
\* store can always take its next step, whatever the others are doing or not
\* doing, and it is out of store() after 2 and out of get() after 3 steps of
\* its own.
WaitFree ==
  \A t \in Threads :
    /\ pc[t] \in {"store_publish", "get_load", "get_assert"} => ENABLED OwnStep(t)
    /\ frame[t].op = "store" => gh[t].steps <= 2
    /\ frame[t].op = "get" => gh[t].steps <= 3
    /\ pc[t] = "store_publish" => gh[t].steps = 1
    /\ pc[t] = "get_load" => gh[t].steps = 1

\* A get() has run from its call to its return while another goroutine stood
\* still in the middle of a store().
WaitFreeWitness ==
  \E t, u \in Threads :
    /\ GotReturned(t)
    /\ pc[u] = "store_publish"
    /\ gh[u].inv <= gh[t].inv

\* C6: initial value.  As long as no caller has called store(), the process-wide
\* store that initDataStore created holds epoch zero and get() returns it.
InitialValue ==
  phase = "ready" /\ invoked = 0 =>
    /\ ts.typ = "time.Time" /\ Unix(ts.data) = Zero64
    /\ \A t \in Threads : GotReturned(t) => Unix(ret[t].data) = Zero64

\* A get() has returned before any store() was called.
InitialValueWitness ==
  \E t \in Threads : GotReturned(t) /\ invoked = 0 /\ frame[t].recv = DS

\* C7: round trip.  After store(time.Unix(v, 0)) for a non-negative v, a get()
\* with no other store() in between returns time.Unix(v, 0), whose Unix() is v;
\* also for v = 0 and v = MaxInt64.
RoundTrip ==
  \A t \in Threads :
    GotReturned(t) /\ gh[t].quiet /\ ~IsNeg64(log[gh[t].floor].sec) =>
      /\ Unix(ret[t].data) = log[gh[t].floor].sec
      /\ ret[t].data = timeUnix(log[gh[t].floor].sec)

\* store(time.Unix(MaxInt64, 0)) by a caller, then get(), has returned.
RoundTripWitness ==
  \E t \in Threads :
    /\ GotReturned(t)
    /\ gh[t].quiet
    /\ gh[t].floor >= 2
    /\ log[gh[t].floor].sec = MaxInt64

\* C8: a nil store fails loudly.  store() and get() on a nil *dataStore panic at
\* their first step: nothing is loaded, nothing is returned, nothing is
\* published.
NilReceiverPanics ==
  \A t \in Threads :
    frame[t].op # "none" /\ frame[t].recv = NilDS =>
      /\ pc[t] = "panicked"
      /\ gh[t].steps = 1
      /\ gh[t].hi = 0
      /\ val[t] = NilIface
      /\ ret[t] = NilIface

\* A store() and a get() on the nil store have both panicked.
NilReceiverPanicsWitness ==
  \E t, u \in Threads :
    /\ frame[t].op = "store" /\ frame[t].recv = NilDS /\ pc[t] = "panicked"
    /\ frame[u].op = "get" /\ frame[u].recv = NilDS /\ pc[u] = "panicked"

\* The decimal form of the integer a body that update accepts denotes: no sign,
\* no leading zeros.
Canonical(body) ==
  LET d  == IF body[1] \in {"+", "-"} THEN Tail(body) ELSE body
      nz == {i \in 1..Len(d) : d[i] # "0"}
  IN  IF nz = {} THEN <<"0">>
      ELSE SubSeq(d, CHOOSE i \in nz : \A j \in nz : i <= j, Len(d))

\* What retrieve is to answer: the value of the latest update answered 200.
Expected == IF lastOk.some THEN Canonical(lastOk.body) ELSE <<"0">>

\* C9: requests served one after another.  GET /retrieve answers 200 with the
\* decimal epoch-seconds of the latest update answered 200, or "0" when there
\* was none; an update that succeeds answers 200 with an empty body.
SequentialHttp ==
  \A t \in Threads :
    pc[t] = "responded" =>
      /\ req[t].kind = "retrieve" /\ req[t].method = "GET" =>
           /\ resp[t].status = 200
           /\ resp[t].ctype = "text/plain"
           /\ resp[t].body = Expected
      /\ req[t].kind = "update" /\ resp[t].status = 200 =>
           /\ resp[t].body = <<>>
           /\ lastOk = [some |-> TRUE, body |-> req[t].body]

\* GET /retrieve has answered "9223372036854775807" after an update with that
\* body was answered 200.
SequentialHttpWitness ==
  \E t \in Threads :
    /\ pc[t] = "responded"
    /\ req[t].kind = "retrieve" /\ req[t].method = "GET"
    /\ lastOk.some /\ lastOk.body = FormatInt(MaxInt64)
    /\ resp[t].body = FormatInt(MaxInt64)

\* C10: a rejected update leaves the store unchanged.  When update has answered
\* with a status other than 200, it has not called store(), nothing was
\* published, and the store holds what it held when the request arrived.
RejectedUpdateFrame ==
  \A t \in Threads :
    pc[t] = "responded" /\ req[t].kind = "update" /\ resp[t].status # 200 =>
      /\ frame[t].op = "none"
      /\ invoked = gh[t].inv
      /\ Len(log) = gh[t].floor
      /\ ts = gh[t].pre

\* An update with the body "-1" has been answered 400 while the store held the
\* value of an earlier update.
RejectedUpdateFrameWitness ==
  \E t \in Threads :
    /\ pc[t] = "responded"
    /\ req[t].kind = "update" /\ req[t].method = "PUT" /\ req[t].ctype = "text/plain"
    /\ req[t].body = <<"-", "1">>
    /\ resp[t].status = 400
    /\ lastOk.some
    /\ Len(log) >= 2

\* The bytes of s after an optional sign.
Magnitude(s) == IF s # <<>> /\ s[1] \in {"+", "-"} THEN Tail(s) ELSE s

\* s is written as a decimal integer: an optional sign, then one digit or more.
IsDecimal(s) == Magnitude(s) # <<>> /\ \A i \in 1..Len(Magnitude(s)) : Magnitude(s)[i] \in Digits

\* s is written as a decimal integer below zero.
IsNegativeDecimal(s) ==
  IsDecimal(s) /\ s[1] = "-" /\ \E i \in 1..Len(Magnitude(s)) : Magnitude(s)[i] # "0"

\* A request that passes update's checks of method, content type and body: its
\* body is handed to the timestamp conversion.
ReachesParse(r) ==
  /\ r.kind = "update" /\ r.method = "PUT" /\ r.ctype = "text/plain"
  /\ r.hasBody /\ Len(r.body) <= maxReqBytes

\* The client holds the answers to two updates that reached the conversion, one
\* with a malformed body and one with a negative one: goroutine t's answer and
\* the rejection read before it.
MalformedAndNegative(t) ==
  /\ pc[t] = "responded" /\ lastErr.some
  /\ ReachesParse(req[t]) /\ ReachesParse(lastErr.req)
  /\ \/ ~IsDecimal(lastErr.req.body) /\ IsNegativeDecimal(req[t].body)
     \/ IsNegativeDecimal(lastErr.req.body) /\ ~IsDecimal(req[t].body)

\* C11 as stated: an update with a malformed body and an update with a negative
\* body are both answered 400, with messages that differ.
DistinctValidationMessages ==
  \A t \in Threads :
    MalformedAndNegative(t) =>
      /\ resp[t].status = 400 /\ lastErr.resp.status = 400
      /\ resp[t].body # lastErr.resp.body

\* C11 as amended: an update with a malformed body and an update with a negative
\* body are both answered 400 with the same message, "invalid timestamp in
\* request body" and a newline; only the error toUnixTime returns, which update
\* logs, tells the two causes apart.
SameValidationMessage ==
  \A t \in Threads :
    MalformedAndNegative(t) =>
      /\ resp[t] = httpError("invalid timestamp in request body", 400)
      /\ lastErr.resp = resp[t]
      /\ toUnixTime(req[t].body).err # toUnixTime(lastErr.req.body).err
      /\ {toUnixTime(req[t].body).err, toUnixTime(lastErr.req.body).err}
           = {"invalid timestamp", "timestamp supplied is negative"}

\* The client has read the answer to an update with the body "invalid" and now
\* holds the answer to an update with the body "-1".
SameValidationMessageWitness ==
  \E t \in Threads :
    /\ MalformedAndNegative(t)
    /\ lastErr.req.body = <<"i", "n", "v", "a", "l", "i", "d">>
    /\ req[t].body = <<"-", "1">>

\* The digits of the largest signed 64-bit integer, 2^63 - 1 = 9223372036854775807.
MaxInt64Digits ==
  <<"9", "2", "2", "3", "3", "7", "2", "0", "3", "6", "8", "5", "4", "7", "7", "5", "8", "0", "7">>

\* The digits of 2^63, the magnitude of the smallest signed 64-bit integer.
MinInt64Digits ==
  <<"9", "2", "2", "3", "3", "7", "2", "0", "3", "6", "8", "5", "4", "7", "7", "5", "8", "0", "8">>

\* a <= b for digit strings of one length.
DigitsLeq(a, b) ==
  \A i \in 1..Len(a) :
    (\A j \in 1..(i - 1) : a[j] = b[j]) => DigitVal[a[i]] <= DigitVal[b[i]]

\* s is written as a decimal integer that a signed 64-bit integer can hold.
IsInt64Decimal(s) ==
  /\ IsDecimal(s)
  /\ LET m == Canonical(s)
         limit == IF s[1] = "-" THEN MinInt64Digits ELSE MaxInt64Digits
     IN  Len(m) < Len(limit) \/ (Len(m) = Len(limit) /\ DigitsLeq(m, limit))

\* The value of a digit string short enough for plain arithmetic.
RECURSIVE DecValue(_)
DecValue(d) == IF d = <<>> THEN 0 ELSE 10 * DecValue(SubSeq(d, 1, Len(d) - 1)) + DigitVal[d[Len(d)]]

\* C12: timestamp parsing.  toUnixTime answers a decimal integer below zero
\* (within 64 bits) with the error "timestamp supplied is negative" and anything
\* that is not a decimal signed 64-bit integer with "invalid timestamp", both
\* times with no time to store (time.Time{}); every decimal integer from 0 to
\* 2^63 - 1 gives a time whose Unix() is that integer.
TimestampParsing ==
  conv.called =>
    /\ IsInt64Decimal(conv.input) /\ IsNegativeDecimal(conv.input) =>
          conv.err = "timestamp supplied is negative" /\ conv.time = zeroTime
    /\ ~IsInt64Decimal(conv.input) =>
          conv.err = "invalid timestamp" /\ conv.time = zeroTime
    /\ IsInt64Decimal(conv.input) /\ ~IsNegativeDecimal(conv.input) =>
          /\ conv.err = ErrNone
          /\ ~IsNeg64(Unix(conv.time))
          /\ FormatInt(Unix(conv.time)) = Canonical(conv.input)
          /\ Len(Canonical(conv.input)) <= MaxTsLen + 1 =>
                Unix(conv.time) = I64(DecValue(Canonical(conv.input)))
          /\ Canonical(conv.input) = MaxInt64Digits => Unix(conv.time) = MaxInt64

\* toUnixTime has returned the time of "9223372036854775807".
TimestampParsingWitness ==
  /\ conv.called
  /\ conv.input = MaxInt64Digits
  /\ conv.err = ErrNone
  /\ Unix(conv.time) = MaxInt64

\* The answer http.Error(w, "method not allowed", 405) gives.
MethodNotAllowed ==
  [status |-> 405, ctype |-> "text/plain; charset=utf-8", body |-> <<"method not allowed", "\n">>]

\* C13: method guard.  update answers every request whose method is not PUT
\* with 405 "method not allowed", whatever its content type and body, and
\* retrieve every request whose method is not GET, without calling get() and
\* with no timestamp in the body; neither handler goes further.
MethodGuard ==
  \A t \in Threads :
    /\ req[t].kind = "update" /\ req[t].method # "PUT" =>
          pc[t] = "responded" /\ resp[t] = MethodNotAllowed /\ frame[t].op = "none"
    /\ req[t].kind = "retrieve" /\ req[t].method # "GET" =>
          pc[t] = "responded" /\ resp[t] = MethodNotAllowed /\ frame[t].op = "none"

\* update has answered 405 to a POST whose content type is not text/plain and
\* whose body is too long and no number.
MethodGuardWitness ==
  \E t \in Threads :
    /\ pc[t] = "responded" /\ req[t].kind = "update"
    /\ req[t].method = "POST" /\ req[t].ctype = "application/json"
    /\ Len(req[t].body) = 1025 /\ ~IsDecimal(req[t].body)
    /\ resp[t].status = 405

\* C14: body-size guard.  A PUT text/plain update with a body of more than 1024
\* bytes is answered 400 "invalid request body" whatever the bytes are, digits
\* included; a body of 1024 bytes or fewer is never answered that way.
BodySizeGuard ==
  \A t \in Threads :
    pc[t] = "responded" /\ req[t].kind = "update" /\ req[t].method = "PUT"
      /\ req[t].ctype = "text/plain" /\ req[t].hasBody =>
        /\ Len(req[t].body) > 1024 =>
              /\ resp[t] = [status |-> 400, ctype |-> "text/plain; charset=utf-8",
                            body |-> <<"invalid request body", "\n">>]
              /\ frame[t].op = "none"
        /\ Len(req[t].body) <= 1024 => resp[t].body # <<"invalid request body", "\n">>

\* update has answered 400 to a body of 1025 digits, which as a number is 0.
BodySizeGuardWitness ==
  \E t \in Threads :
    /\ pc[t] = "responded" /\ req[t].kind = "update" /\ req[t].method = "PUT"
    /\ req[t].ctype = "text/plain" /\ req[t].hasBody
    /\ Len(req[t].body) = 1025 /\ IsDecimal(req[t].body)
    /\ resp[t].status = 400

\* C15: deterministic rejection.  A rejected request gets the status and the
\* message the same request got when it was rejected before, whatever the store
\* held then and holds now and whatever requests were handled in between.
DeterministicRejection ==
  \A t \in Threads :
    pc[t] = "responded" /\ resp[t].status # 200 /\ lastErr.some /\ lastErr.req = req[t] =>
      resp[t] = lastErr.resp

\* A request was rejected, an update then changed the stored value, and the same
\* request has been rejected again.
DeterministicRejectionWitness ==
  \E t \in Threads :
    /\ pc[t] = "responded" /\ resp[t].status # 200
    /\ lastErr.some /\ lastErr.req = req[t]
    /\ lastErr.pre # gh[t].pre
    /\ Unix(lastErr.pre.data) # Unix(gh[t].pre.data)

\* The first of update's six checks that request r fails, in the order method,
\* content type, missing body, body size, integer parse, sign; "none" when it
\* passes them all.
FirstFailing(r) ==
  IF r.method # "PUT" THEN "method"
  ELSE IF r.ctype # "text/plain" THEN "content type"
  ELSE IF ~r.hasBody THEN "missing body"
  ELSE IF Len(r.body) > 1024 THEN "body size"
  ELSE IF ~IsInt64Decimal(r.body) THEN "integer parse"
  ELSE IF IsNegativeDecimal(r.body) THEN "sign"
  ELSE "none"

\* The status and the message each failing check is answered with.
AnswerTo(check) ==
  CASE check = "method" -> <<405, "method not allowed">>
    [] check = "content type" -> <<400, "only text/plain content-type is allowed">>
    [] check = "missing body" -> <<400, "request body missing">>
    [] check = "body size" -> <<400, "invalid request body">>
    [] check = "integer parse" -> <<400, "invalid timestamp in request body">>
    [] check = "sign" -> <<400, "invalid timestamp in request body">>

\* What update has done for the request each goroutine serves agrees with the
\* first check the request fails.
UpdateInOrder ==
  \A t \in Threads :
    req[t].kind = "update" =>
      /\ resp[t] # NoResp <=> pc[t] = "responded"
      /\ FirstFailing(req[t]) # "none" =>
            /\ pc[t] = "responded"
            /\ frame[t].op = "none"
            /\ resp[t].status = AnswerTo(FirstFailing(req[t]))[1]
            /\ resp[t].body = <<AnswerTo(FirstFailing(req[t]))[2], "\n">>
      /\ FirstFailing(req[t]) = "none" =>
            /\ frame[t].op = "store"
            /\ pc[t] = "responded" => resp[t].status = 200 /\ resp[t].body = <<>>

\* A response that has been written stays as it is until the client has taken it.
OneResponse ==
  \A t \in Threads :
    resp[t] # NoResp => resp'[t] = resp[t] \/ (resp'[t] = NoResp /\ pc'[t] = "idle")

\* C16: update validation order.  update checks method, content type, missing
\* body, body size, integer parse and sign in this order; the first check that
\* fails decides the response alone (405 for the method, 400 for the others);
\* one response is written per request and never rewritten; store() is entered
\* only by a request that passes every check.
UpdateOrder == []UpdateInOrder /\ [][OneResponse]_vars

\* update has answered a PUT that fails the content-type check, the body-size
\* check and the integer parse with the content-type message.
UpdateOrderWitness ==
  \E t \in Threads :
    /\ pc[t] = "responded" /\ req[t].kind = "update"
    /\ req[t].method = "PUT" /\ req[t].ctype # "text/plain" /\ req[t].hasBody
    /\ Len(req[t].body) > 1024 /\ ~IsDecimal(req[t].body)
    /\ resp[t].body = <<"only text/plain content-type is allowed", "\n">>

\* While a retrieve request is served and answered, the store is what it was
\* when the request arrived, and a GET is answered with that value in decimal.
RetrieveFrame ==
  \A t \in Threads :
    req[t].kind = "retrieve" =>
      /\ ts = gh[t].pre
      /\ Len(log) = gh[t].floor
      /\ invoked = gh[t].inv
      /\ frame[t].op # "store"
      /\ pc[t] = "responded" /\ req[t].method = "GET" =>
            resp[t].body = FormatInt(Unix(ts.data)) /\ resp[t].body = Expected

\* A step taken for a retrieve request changes neither the stored value nor
\* the record of what was published.
RetrieveStep ==
  (\E t \in Threads : req[t].kind = "retrieve" \/ req'[t].kind = "retrieve") =>
    ts' = ts /\ log' = log /\ invoked' = invoked /\ lastOk' = lastOk

\* C17: retrieve is read-only.  A retrieve request, accepted or rejected, never
\* changes the stored value; so each retrieve answers with the value of the
\* latest successful update, however many retrieves came since.
RetrieveReadOnly == []RetrieveFrame /\ [][RetrieveStep]_vars

\* After an update with the body "1000" and another request that did not
\* change the store, a GET has been answered "1000".
RetrieveReadOnlyWitness ==
  \E t \in Threads :
    /\ pc[t] = "responded" /\ req[t].kind = "retrieve" /\ req[t].method = "GET"
    /\ ncalls = 3 /\ Len(log) = 2
    /\ lastOk.body = <<"1", "0", "0", "0">>
    /\ resp[t].body = <<"1", "0", "0", "0">>

\* C18: the 64-bit boundary.  An update with the body "9223372036854775807" is
\* answered 200 and the store then holds a time whose Unix() is 2^63 - 1, which
\* retrieve writes back digit for digit; an update with the body
\* "9223372036854775808" is answered 400 "invalid timestamp in request body"
\* and leaves the store as it was.
Boundary64 ==
  \A t \in Threads :
    pc[t] = "responded" =>
      /\ req[t].kind = "update" /\ ReachesParse(req[t]) /\ req[t].body = MaxInt64Digits =>
            /\ resp[t].status = 200
            /\ ts.typ = "time.Time"
            /\ Unix(ts.data) = <<65535, 65535, 65535, 32767>>
      /\ req[t].kind = "retrieve" /\ req[t].method = "GET" /\ lastOk.body = MaxInt64Digits =>
            resp[t].status = 200 /\ resp[t].body = MaxInt64Digits
      /\ req[t].kind = "update" /\ ReachesParse(req[t]) /\ req[t].body = MinInt64Digits =>
            /\ resp[t].status = 400
            /\ resp[t].body = <<"invalid timestamp in request body", "\n">>
            /\ frame[t].op = "none"
            /\ ts = gh[t].pre
            /\ Len(log) = gh[t].floor

\* The store holds the time of 2^63 - 1, whose seconds since year 1 have wrapped
\* below zero, and an update with the body "9223372036854775808" has been
\* answered 400.
Boundary64Witness ==
  \E t \in Threads :
    /\ pc[t] = "responded" /\ req[t].kind = "update" /\ ReachesParse(req[t])
    /\ req[t].body = MinInt64Digits
    /\ resp[t].status = 400
    /\ lastOk.body = MaxInt64Digits
    /\ IsNeg64(ts.data.ext)
    /\ Unix(ts.data) = MaxInt64

\* C19 as stated: the flag-based dataStore is concurrency safe.  No get() reads
\* a word of ts while some store() is between setting and clearing the flag,
\* and the flag is 1 whenever a store() is at its write of ts.
FlagSafe ==
  /\ \A t \in Threads : frame[t].op = "get" => ~gh[t].raced
  /\ \A u \in Threads : Writing(u) => writeFlag = 1

\* From a state in which the flag is set, no step takes a get() out of its loop.
SpinsWhileSet ==
  \A t \in Threads :
    frame[t].op = "get" /\ pc[t] = "loadFlag" /\ writeFlag = 1 => pc'[t] = "loadFlag"

\* C20: in the flag-based dataStore a get() that finds the flag set does not
\* return until the flag is cleared: it stays in its loop as long as the flag
\* is set, and for ever when the flag stays set for ever, as it does when the
\* writer that set it stops before clearing it.
GetSpins ==
  /\ [][SpinsWhileSet]_vars
  /\ \A t \in Threads :
       []((frame[t].op = "get" /\ pc[t] = "loadFlag" /\ [](writeFlag = 1))
            => [](pc[t] = "loadFlag"))

\* A get() has gone round its loop MaxSpin times while the store() that set the
\* flag stands right after setWrite.
GetSpinsWitness ==
  \E t, u \in Threads :
    /\ frame[t].op = "get" /\ pc[t] = "loadFlag" /\ gh[t].steps = MaxSpin
    /\ frame[u].op = "store" /\ pc[u] = "write_ext"
    /\ writeFlag = 1

\* The epoch seconds of the stored timestamp are not negative.
StoredNonNegative == assertTime(ts) /\ ~IsNeg64(Unix(ts.data))

\* C21: non-negative invariant.  In every state reachable after init by any
\* sequence or interleaving of update and retrieve requests, the store holds a
\* time.Time whose epoch seconds are not negative, and so are the epoch
\* seconds of every value ever published.
NonNegative ==
  phase # "boot" =>
    /\ StoredNonNegative
    /\ \A j \in 1..Len(log) : ~IsNeg64(Unix(log[j].time))

\* An update of "-1" has been answered 400 while a concurrent update has
\* published the largest int64, whose internal seconds have wrapped.
NonNegativeWitness ==
  /\ phase = "serving"
  /\ \E t, u \in Threads :
       /\ t # u
       /\ req[t].kind = "update" /\ req[t].body = <<"-", "1">>
       /\ pc[t] = "responded" /\ resp[t].status = 400
       /\ req[u].kind = "update" /\ pc[u] = "update_ok"
       /\ Unix(ts.data) = MaxInt64
       /\ IsNeg64(ts.data.ext)

\* While the server listens, the handler th is the allocated store and the
\* store holds a time.Time.
ServingOnSetStore == phase = "serving" => th = DS /\ assertTime(ts)

\* A handler runs only while the server listens, and none has panicked.
HandlersAfterInit ==
  \A t \in Threads : (req[t].kind # "none" => phase = "serving") /\ pc[t] # "panicked"

\* At the step that starts the server, the store is allocated, holds epoch
\* zero, and no handler has run.
StartsOnEpochZero ==
  phase # "serving" /\ phase' = "serving" =>
    /\ th = DS
    /\ ts = TimeIface(timeUnix(Zero64))
    /\ log = <<[sec |-> Zero64, time |-> timeUnix(Zero64), raced |-> FALSE]>>
    /\ \A t \in Threads : pc[t] = "idle"

\* C22: initialization precedes serving.  The store is constructed and set to
\* epoch zero before the server starts listening, so every handler runs
\* against a set store and no request makes store() or get() panic.
InitPrecedesServing ==
  /\ []ServingOnSetStore
  /\ []HandlersAfterInit
  /\ [][StartsOnEpochZero]_vars

\* The server has answered an update and a concurrent retrieve with 200.
InitPrecedesServingWitness ==
  /\ phase = "serving"
  /\ \E t, u \in Threads :
       /\ req[t].kind = "update" /\ pc[t] = "responded" /\ resp[t].status = 200
       /\ req[u].kind = "retrieve" /\ pc[u] = "responded" /\ resp[u].status = 200

====
